---- MODULE Spec2Model ----
(***************************************************************************)
(* Papadimitriou's randomized 2-SAT solver of algorithms/part4/hw4         *)
(* (src/algorithms/part4/hw4/src/lib.rs): the clause store, the xorshift*  *)
(* generator, the assignment, the satisfied/unsatisfied lists of the       *)
(* solver and the restart / random-walk loops of is_satisfiable.           *)
(*                                                                         *)
(* Rust indices are 0-based; the list operators below take 0-based         *)
(* indices and add one when they read a TLA+ sequence.  The two slots of a *)
(* clause (vars[0], vars[1] in Rust) are the positions 1 and 2 of a tuple. *)
(* The lists hold references to clauses of the store: here, positions in   *)
(* the store.  Equality of two references compares the clauses' values,    *)
(* as the derived PartialEq of Clause does.                                *)
(***************************************************************************)
EXTENDS Integers, Sequences, FiniteSets, TLC

VARIABLES
    clauses,      \* Clauses.clauses: the store, a sequence of [allow, vars]
    n_var,        \* Clauses.n_var
    n_iter,       \* the restart budget passed to is_satisfiable
    stream,       \* "seeded": the generator's values; "free": any values
    satisfied,    \* TwoSATSolver.satisfied: per variable, a list of clauses
    unsatisfied,  \* TwoSATSolver.unsatisfied
    assignment,   \* TwoSATSolver.assignment
    rng,          \* RNG.0, a 64-bit word, as the set of its one bits
    pc,           \* position in is_satisfiable / try_solve
    restart,      \* try_solve calls of this is_satisfiable that returned false
    i,            \* the counter of the random-walk loop of try_solve
    result,       \* the value returned by is_satisfiable, once pc = "done"
    call,         \* which call of is_satisfiable on this store is running
    trace,        \* seeded stream: what this call has done so far
    first,        \* the trace and the verdict of the first call, once over
    flips         \* the flip_random_var calls of this is_satisfiable so far

vars == <<clauses, n_var, n_iter, stream, satisfied, unsatisfied, assignment,
          rng, pc, restart, i, result, call, trace, first, flips>>

----------------------------------------------------------------------------
(* Bounds of the model: the stores with at most MaxClauses clauses over at *)
(* most NVarMax variables, with budgets up to MaxRestarts.  The stores of  *)
(* the tests and two further stores (below) are followed besides.          *)

NVarMax == 2

MaxClauses == 1

MaxRestarts == 2

----------------------------------------------------------------------------
(* 64-bit words.  A word is the set of the positions (0..63) of its one    *)
(* bits; the product with the multiplier is computed on eight 8-bit limbs, *)
(* least significant first, and truncated to 64 bits.                      *)

Shl(x, k) == {b + k : b \in {c \in x : c + k <= 63}}

Shr(x, k) == {b - k : b \in {c \in x : c >= k}}

Xor(x, y) == (x \ y) \cup (y \ x)

Pow2(k) == CASE k = 0 -> 1 [] k = 1 -> 2 [] k = 2 -> 4 [] k = 3 -> 8
             [] k = 4 -> 16 [] k = 5 -> 32 [] k = 6 -> 64 [] k = 7 -> 128

RECURSIVE LimbSum(_, _, _)
LimbSum(x, j, b) ==
    IF b > 7 THEN 0
    ELSE (IF (8 * j + b) \in x THEN Pow2(b) ELSE 0) + LimbSum(x, j, b + 1)

Limbs(x) == [j \in 0..7 |-> LimbSum(x, j, 0)]

RECURSIVE BitsOf(_, _)
BitsOf(n, b) ==
    IF n = 0 THEN {} ELSE (IF n % 2 = 1 THEN {b} ELSE {}) \cup BitsOf(n \div 2, b + 1)

WordOf(n) == BitsOf(n, 0)

\* 0x2545F4914F6CDD1D, least significant byte first
Multiplier == [j \in 0..7 |->
    CASE j = 0 -> 29 [] j = 1 -> 221 [] j = 2 -> 108 [] j = 3 -> 79
      [] j = 4 -> 145 [] j = 5 -> 244 [] j = 6 -> 69 [] j = 7 -> 37]

RECURSIVE Column(_, _, _, _)
Column(xl, kl, k, j) ==
    IF j > k THEN 0 ELSE xl[j] * kl[k - j] + Column(xl, kl, k, j + 1)

\* limbs k..7 of the product, given the carry into limb k
RECURSIVE MulLimbs(_, _, _, _)
MulLimbs(xl, kl, k, carry) ==
    IF k > 7 THEN <<>>
    ELSE LET total == Column(xl, kl, k, 0) + carry
         IN  <<total % 256>> \o MulLimbs(xl, kl, k + 1, total \div 256)

\* x.wrapping_mul(0x2545F4914F6CDD1D), as a sequence of 8 limbs
wrapping_mul(x) == MulLimbs(Limbs(x), Multiplier, 0, 0)

\* the remainder of a limb sequence modulo m > 0
RECURSIVE ModFrom(_, _, _, _)
ModFrom(limbs, m, k, acc) ==
    IF k = 0 THEN acc ELSE ModFrom(limbs, m, k - 1, (acc * 256 + limbs[k]) % m)

Mod(limbs, m) == ModFrom(limbs, m, 8, 0)

----------------------------------------------------------------------------
(* RNG *)

Seed == 42

RNG_new(seed) == WordOf(seed)

\* a faulty variant of xorshift: the shifts 7 and 17 exchanged
xorshift_swapped(x) ==
    LET a == Xor(x, Shl(x, 13))
        b == Xor(a, Shr(a, 17))
    IN  Xor(b, Shl(b, 7))

\* the state after one generate() call
xorshift(x) ==
    LET a == Xor(x, Shl(x, 13))
        b == Xor(a, Shr(a, 7))
    IN  Xor(b, Shl(b, 17))

\* generate(): the new state and the value returned
generate(x) ==
    LET y == xorshift(x) IN [rng |-> y, out |-> wrapping_mul(y)]

random_indicator(x) ==
    LET g == generate(x) IN [rng |-> g.rng, out |-> Mod(g.out, 2)]

random_bool(x) ==
    LET g == random_indicator(x) IN [rng |-> g.rng, out |-> (g.out = 1)]

----------------------------------------------------------------------------
(* Clause, Clauses *)

\* the clause written "x y" in the input: a positive number requires true
Clause_from_str(x, y) ==
    [allow |-> <<x > 0, y > 0>>,
     vars  |-> <<IF x < 0 THEN -x ELSE x, IF y < 0 THEN -y ELSE y>>]

\* a faulty variant of other_var: the comparison inverted, so it returns `var` itself
other_var_same(clause, var) ==
    LET idx == IF clause.vars[1] = var THEN 0 ELSE 1
    IN  clause.vars[idx + 1]

\* a faulty variant of other_var: the first variable, whatever `var` is
other_var_first(clause, var) == clause.vars[1]

other_var(clause, var) ==
    LET idx == IF clause.vars[1] = var THEN 1 ELSE 0
    IN  clause.vars[idx + 1]

----------------------------------------------------------------------------
(* Vec *)

\* Vec::swap_remove(i); the caller checks i < len (Rust panics otherwise)
swap_remove(list, idx) ==
    LET len == Len(list)
    IN  IF idx = len - 1
        THEN SubSeq(list, 1, len - 1)
        ELSE [k \in 1..(len - 1) |-> IF k = idx + 1 THEN list[len] ELSE list[k]]

\* iter().position(..): the first index whose clause equals `clause`, or -1
RECURSIVE position(_, _, _, _)
position(cl, list, clause, k) ==
    IF k >= Len(list) THEN -1
    ELSE IF cl[clause] = cl[list[k + 1]] THEN k
    ELSE position(cl, list, clause, k + 1)

----------------------------------------------------------------------------
(* Satisfied *)

Satisfied_new(n) == [v \in 0..n |-> <<>>]

\* a faulty variant of push_clause: the clause is pushed onto the list of its first
\* variable only
push_clause_first(cl, sat, clause) ==
    [sat EXCEPT ![cl[clause].vars[1]] = Append(@, clause)]

push_clause(cl, sat, clause) ==
    LET s1 == [sat EXCEPT ![cl[clause].vars[1]] = Append(@, clause)]
    IN  [s1 EXCEPT ![cl[clause].vars[2]] = Append(@, clause)]

\* a faulty variant of remove_clause_at: the first entry of the list is removed,
\* whatever clause it is
remove_clause_at_front(cl, sat, clause, var) ==
    IF Len(sat[var]) = 0
    THEN [panic |-> TRUE, satisfied |-> sat]
    ELSE [panic |-> FALSE, satisfied |-> [sat EXCEPT ![var] = swap_remove(@, 0)]]

\* a faulty variant of remove_clause_at: the entry is found but left in the list
remove_clause_at_keep(cl, sat, clause, var) ==
    [panic |-> position(cl, sat[var], clause, 0) = -1, satisfied |-> sat]

\* panic: the unwrap() of a position that found nothing
remove_clause_at(cl, sat, clause, var) ==
    LET remove_var == position(cl, sat[var], clause, 0)
    IN  IF remove_var = -1
        THEN [panic |-> TRUE, satisfied |-> sat]
        ELSE [panic |-> FALSE,
              satisfied |-> [sat EXCEPT ![var] = swap_remove(@, remove_var)]]

----------------------------------------------------------------------------
(* TwoSATSolver *)

\* random_bool() for the entries k..n of the assignment, in order
RECURSIVE randomize_from(_, _, _, _)
randomize_from(x, asg, k, n) ==
    IF k > n THEN [rng |-> x, assignment |-> asg]
    ELSE LET g == random_bool(x)
         IN  randomize_from(g.rng, [asg EXCEPT ![k] = g.out], k + 1, n)

\* a faulty variant of randomize_assignment: the unused entry 0 is left alone
randomize_assignment_from_one(x, asg, n) == randomize_from(x, asg, 1, n)

randomize_assignment(x, asg, n) == randomize_from(x, asg, 0, n)

\* a faulty variant of is_satisfied: both tests read the first variable
is_satisfied_first_slot(asg, clause) ==
    (asg[clause.vars[1]] = clause.allow[1]) \/ (asg[clause.vars[1]] = clause.allow[2])

\* a faulty variant of is_satisfied: both literals are required
is_satisfied_both(asg, clause) ==
    (asg[clause.vars[1]] = clause.allow[1]) /\ (asg[clause.vars[2]] = clause.allow[2])

is_satisfied(asg, clause) ==
    (asg[clause.vars[1]] = clause.allow[1]) \/ (asg[clause.vars[2]] = clause.allow[2])

\* the for_each of partition, from clause k of the store on
RECURSIVE partition_from(_, _, _, _, _)
partition_from(cl, asg, sat, unsat, k) ==
    IF k > Len(cl) THEN [satisfied |-> sat, unsatisfied |-> unsat]
    ELSE IF is_satisfied(asg, cl[k])
         THEN partition_from(cl, asg, push_clause(cl, sat, k), unsat, k + 1)
         ELSE partition_from(cl, asg, sat, Append(unsat, k), k + 1)

\* a faulty variant of partition: the else branch is missing, unsatisfied clauses are
\* not recorded
partition_lost(cl, asg, sat, unsat) ==
    [satisfied |-> partition_from(cl, asg, sat, unsat, 1).satisfied,
     unsatisfied |-> unsat]

\* a variant of partition that empties the lists first
partition_fresh(cl, asg, sat, unsat) ==
    partition_from(cl, asg, [v \in DOMAIN sat |-> <<>>], <<>>, 1)

partition(cl, asg, sat, unsat) == partition_from(cl, asg, sat, unsat, 1)

\* a faulty variant of flip_random_var: both variables of the clause are flipped
flip_random_var_both(cl, asg, unsat, random_idx, ind) ==
    LET random_clause == unsat[random_idx + 1]
        var == cl[random_clause].vars[ind + 1]
        o   == cl[random_clause].vars[2 - ind]
    IN  [var |-> var, clause |-> random_clause,
         assignment |-> [[asg EXCEPT ![var] = ~asg[var]] EXCEPT ![o] = ~asg[o]]]

\* flip_random_var, given the two values drawn: random_idx and the indicator
flip_random_var(cl, asg, unsat, random_idx, ind) ==
    LET random_clause == unsat[random_idx + 1]
        var == cl[random_clause].vars[ind + 1]
    IN  [var |-> var, clause |-> random_clause,
         assignment |-> [asg EXCEPT ![var] = ~asg[var]]]

\* a faulty variant of first_loop: the cursor advances after a removal too
RECURSIVE first_loop_advance(_, _, _, _, _, _, _, _)
first_loop_advance(cl, asg, sat, unsat, flip_var, k, n, idx) ==
    IF k >= n THEN [panic |-> FALSE, satisfied |-> sat, unsatisfied |-> unsat]
    ELSE IF idx >= Len(sat[flip_var])
    THEN [panic |-> TRUE, satisfied |-> sat, unsatisfied |-> unsat]
    ELSE LET clause == sat[flip_var][idx + 1]
         IN  IF is_satisfied(asg, cl[clause])
             THEN first_loop_advance(cl, asg, sat, unsat, flip_var, k + 1, n, idx + 1)
             ELSE LET s1 == [sat EXCEPT ![flip_var] = swap_remove(@, idx)]
                      o  == other_var(cl[clause], flip_var)
                      r  == remove_clause_at(cl, s1, clause, o)
                  IN  IF r.panic
                      THEN [panic |-> TRUE, satisfied |-> s1, unsatisfied |-> unsat]
                      ELSE first_loop_advance(cl, asg, r.satisfied,
                                              Append(unsat, clause),
                                              flip_var, k + 1, n, idx + 1)

\* the first loop of random_repartition: iteration k of n, cursor idx
RECURSIVE first_loop(_, _, _, _, _, _, _, _)
first_loop(cl, asg, sat, unsat, flip_var, k, n, idx) ==
    IF k >= n THEN [panic |-> FALSE, satisfied |-> sat, unsatisfied |-> unsat]
    ELSE IF idx >= Len(sat[flip_var])
    THEN [panic |-> TRUE, satisfied |-> sat, unsatisfied |-> unsat]
    ELSE LET clause == sat[flip_var][idx + 1]
         IN  IF is_satisfied(asg, cl[clause])
             THEN first_loop(cl, asg, sat, unsat, flip_var, k + 1, n, idx + 1)
             ELSE LET s1 == [sat EXCEPT ![flip_var] = swap_remove(@, idx)]
                      o  == other_var(cl[clause], flip_var)
                      r  == remove_clause_at(cl, s1, clause, o)
                  IN  IF r.panic
                      THEN [panic |-> TRUE, satisfied |-> s1, unsatisfied |-> unsat]
                      ELSE first_loop(cl, asg, r.satisfied, Append(unsat, clause),
                                      flip_var, k + 1, n, idx)

\* a faulty variant of second_loop: after a swap_remove the entry moved into the
\* place is tested again and the entry below is passed over
RECURSIVE second_loop_stay(_, _, _, _, _)
second_loop_stay(cl, asg, sat, unsat, idx) ==
    IF idx < 0 \/ idx >= Len(unsat)
    THEN [satisfied |-> sat, unsatisfied |-> unsat]
    ELSE LET clause == unsat[idx + 1]
         IN  IF is_satisfied(asg, cl[clause])
             THEN second_loop_stay(cl, asg, push_clause(cl, sat, clause),
                                   swap_remove(unsat, idx), idx - 2)
             ELSE second_loop_stay(cl, asg, sat, unsat, idx - 1)

\* a faulty variant of second_loop: a clause that holds again is taken out of the
\* unsatisfied list but not pushed onto the satisfied lists
RECURSIVE second_loop_drop(_, _, _, _, _)
second_loop_drop(cl, asg, sat, unsat, idx) ==
    IF idx < 0 \/ idx >= Len(unsat)
    THEN [satisfied |-> sat, unsatisfied |-> unsat]
    ELSE LET clause == unsat[idx + 1]
         IN  IF is_satisfied(asg, cl[clause])
             THEN second_loop_drop(cl, asg, sat, swap_remove(unsat, idx), idx - 1)
             ELSE second_loop_drop(cl, asg, sat, unsat, idx - 1)

\* the second loop of random_repartition: idx runs from m - 1 down to 0
RECURSIVE second_loop(_, _, _, _, _)
second_loop(cl, asg, sat, unsat, idx) ==
    IF idx < 0 \/ idx >= Len(unsat)
    THEN [satisfied |-> sat, unsatisfied |-> unsat]
    ELSE LET clause == unsat[idx + 1]
         IN  IF is_satisfied(asg, cl[clause])
             THEN second_loop(cl, asg, push_clause(cl, sat, clause),
                              swap_remove(unsat, idx), idx - 1)
             ELSE second_loop(cl, asg, sat, unsat, idx - 1)

\* a faulty variant of repartition_after_flip: the second loop starts one entry
\* below the last one, (0..m - 1).rev()
repartition_after_flip_short(cl, asg, sat, unsat, flip_var) ==
    LET n  == Len(sat[flip_var])
        m  == Len(unsat)
        r1 == first_loop(cl, asg, sat, unsat, flip_var, 0, n, 0)
        r2 == second_loop(cl, asg, r1.satisfied, r1.unsatisfied, m - 2)
    IN  IF r1.panic
        THEN [panic |-> TRUE,
              satisfied |-> r1.satisfied, unsatisfied |-> r1.unsatisfied]
        ELSE [panic |-> FALSE,
              satisfied |-> r2.satisfied, unsatisfied |-> r2.unsatisfied]

\* random_repartition after its flip_random_var: the two loops, for the
\* variable flip_var and the assignment asg
repartition_after_flip(cl, asg, sat, unsat, flip_var) ==
    LET n  == Len(sat[flip_var])
        m  == Len(unsat)
        r1 == first_loop(cl, asg, sat, unsat, flip_var, 0, n, 0)
        r2 == second_loop(cl, asg, r1.satisfied, r1.unsatisfied, m - 1)
    IN  IF r1.panic
        THEN [panic |-> TRUE,
              satisfied |-> r1.satisfied, unsatisfied |-> r1.unsatisfied]
        ELSE [panic |-> FALSE,
              satisfied |-> r2.satisfied, unsatisfied |-> r2.unsatisfied]

\* random_repartition, given the two values drawn by flip_random_var
random_repartition(cl, asg, sat, unsat, random_idx, ind) ==
    LET f == flip_random_var(cl, asg, unsat, random_idx, ind)
        r == repartition_after_flip(cl, f.assignment, sat, unsat, f.var)
    IN  [panic |-> r.panic, var |-> f.var, clause |-> f.clause,
         assignment |-> f.assignment,
         satisfied |-> r.satisfied, unsatisfied |-> r.unsatisfied]

TwoSATSolver_new(n, seed) ==
    [satisfied   |-> Satisfied_new(n),
     unsatisfied |-> <<>>,
     assignment  |-> [v \in 0..n |-> TRUE],
     rng         |-> RNG_new(seed)]

----------------------------------------------------------------------------
(* The two loops of random_repartition once more, with a record of the     *)
(* entries they test.  `tags` runs parallel to the list a loop scans and   *)
(* names each entry by the index it had when random_repartition began      *)
(* (Appended for an entry pushed since); `tested` collects the tags of the *)
(* entries handed to is_satisfied, in the order of the tests.              *)

Appended == -1

\* the first loop: iteration k of n, cursor idx
RECURSIVE first_loop_tested(_, _, _, _, _, _, _, _, _, _)
first_loop_tested(cl, asg, sat, unsat, flip_var, k, n, idx, tags, tested) ==
    IF k >= n
    THEN [panic |-> FALSE, satisfied |-> sat, unsatisfied |-> unsat, tested |-> tested]
    ELSE IF idx >= Len(sat[flip_var])
    THEN [panic |-> TRUE, satisfied |-> sat, unsatisfied |-> unsat, tested |-> tested]
    ELSE LET clause == sat[flip_var][idx + 1]
             seen   == Append(tested, tags[idx + 1])
         IN  IF is_satisfied(asg, cl[clause])
             THEN first_loop_tested(cl, asg, sat, unsat, flip_var, k + 1, n, idx + 1,
                                    tags, seen)
             ELSE LET s1 == [sat EXCEPT ![flip_var] = swap_remove(@, idx)]
                      t1 == swap_remove(tags, idx)
                      o  == other_var(cl[clause], flip_var)
                      r  == remove_clause_at(cl, s1, clause, o)
                      t2 == IF o = flip_var /\ ~r.panic
                            THEN swap_remove(t1, position(cl, s1[o], clause, 0))
                            ELSE t1
                  IN  IF r.panic
                      THEN [panic |-> TRUE, satisfied |-> s1, unsatisfied |-> unsat,
                            tested |-> seen]
                      ELSE first_loop_tested(cl, asg, r.satisfied, Append(unsat, clause),
                                             flip_var, k + 1, n, idx, t2, seen)

\* the second loop: idx runs from m - 1 down to 0
RECURSIVE second_loop_tested(_, _, _, _, _, _, _)
second_loop_tested(cl, asg, sat, unsat, idx, tags, tested) ==
    IF idx < 0 \/ idx >= Len(unsat)
    THEN [satisfied |-> sat, unsatisfied |-> unsat, tested |-> tested]
    ELSE LET clause == unsat[idx + 1]
             seen   == Append(tested, tags[idx + 1])
         IN  IF is_satisfied(asg, cl[clause])
             THEN second_loop_tested(cl, asg, push_clause(cl, sat, clause),
                                     swap_remove(unsat, idx), idx - 1,
                                     swap_remove(tags, idx), seen)
             ELSE second_loop_tested(cl, asg, sat, unsat, idx - 1, tags, seen)

\* a faulty variant of repartition_tested: m is read after the first loop
repartition_tested_late_m(cl, asg, sat, unsat, flip_var) ==
    LET n  == Len(sat[flip_var])
        r1 == first_loop_tested(cl, asg, sat, unsat, flip_var, 0, n, 0,
                                [p \in 1..n |-> p - 1], <<>>)
        m  == Len(r1.unsatisfied)
        r2 == second_loop_tested(cl, asg, r1.satisfied, r1.unsatisfied, m - 1,
                                 [p \in 1..m |->
                                     IF p <= Len(unsat) THEN p - 1 ELSE Appended],
                                 <<>>)
    IN  IF r1.panic
        THEN [panic |-> TRUE, satisfied |-> r1.satisfied,
              unsatisfied |-> r1.unsatisfied, first |-> r1.tested, second |-> <<>>]
        ELSE [panic |-> FALSE, satisfied |-> r2.satisfied,
              unsatisfied |-> r2.unsatisfied, first |-> r1.tested,
              second |-> r2.tested]

\* random_repartition after its flip_random_var, with the tests of its two loops
repartition_tested(cl, asg, sat, unsat, flip_var) ==
    LET n  == Len(sat[flip_var])
        m  == Len(unsat)
        r1 == first_loop_tested(cl, asg, sat, unsat, flip_var, 0, n, 0,
                                [p \in 1..n |-> p - 1], <<>>)
        r2 == second_loop_tested(cl, asg, r1.satisfied, r1.unsatisfied, m - 1,
                                 [p \in 1..Len(r1.unsatisfied) |->
                                     IF p <= m THEN p - 1 ELSE Appended],
                                 <<>>)
    IN  IF r1.panic
        THEN [panic |-> TRUE, satisfied |-> r1.satisfied,
              unsatisfied |-> r1.unsatisfied, first |-> r1.tested, second |-> <<>>]
        ELSE [panic |-> FALSE, satisfied |-> r2.satisfied,
              unsatisfied |-> r2.unsatisfied, first |-> r1.tested,
              second |-> r2.tested]

----------------------------------------------------------------------------
(* The instances and the calls the model starts from. *)

ClauseSet(n) == [allow : BOOLEAN \X BOOLEAN, vars : (1..n) \X (1..n)]

SeqsUpTo(S, len) == UNION {[1..k -> S] : k \in 0..len}

Instances ==
    UNION {{[n |-> n, cl |-> s] : s \in SeqsUpTo(ClauseSet(n), MaxClauses)} :
           n \in 0..NVarMax}

\* the instances of the tests: SAT and UNSAT
SAT ==
    [n |-> 2,
     cl |-> <<Clause_from_str(1, 2), Clause_from_str(1, -2), Clause_from_str(-1, 2)>>]

UNSAT ==
    [n |-> 2,
     cl |-> <<Clause_from_str(1, 2), Clause_from_str(1, -2),
              Clause_from_str(-1, 2), Clause_from_str(-1, -2)>>]

\* a store with two clauses on the same variable: "1\n1 1\n-1 -1\n"
SameVarStore ==
    [n |-> 1, cl |-> <<Clause_from_str(1, 1), Clause_from_str(-1, -1)>>]

\* a satisfiable store the seeded walk does not solve in its first restart:
\* "2\n-1 2\n2 1\n"
TwoClauseStore ==
    [n |-> 2, cl |-> <<Clause_from_str(-1, 2), Clause_from_str(2, 1)>>]

NamedStores == {SAT, UNSAT, SameVarStore, TwoClauseStore}

\* the restart budgets of test1 and test2
Test1Restarts == 100

Test2Restarts == 10

Calls ==
    {[stream |-> s, inst |-> x, budget |-> b] :
        s \in {"free", "seeded"}, x \in Instances \cup NamedStores, b \in 0..MaxRestarts}
    \cup {[stream |-> "seeded", inst |-> SAT, budget |-> Test1Restarts],
          [stream |-> "seeded", inst |-> UNSAT, budget |-> Test2Restarts]}

\* is_satisfiable has built its solver and is at the head of its loop
Init ==
    \E c \in Calls :
        LET solver == TwoSATSolver_new(c.inst.n, Seed)
        IN  /\ stream = c.stream
            /\ clauses = c.inst.cl
            /\ n_var = c.inst.n
            /\ n_iter = c.budget
            /\ satisfied = solver.satisfied
            /\ unsatisfied = solver.unsatisfied
            /\ assignment = solver.assignment
            /\ rng = solver.rng
            /\ pc = "try_solve"
            /\ restart = 0
            /\ i = 0
            /\ result = FALSE
            /\ call = 1
            /\ trace = <<>>
            /\ first = [trace |-> <<>>, result |-> FALSE]
            /\ flips = 0

Record(event) == IF stream = "seeded" THEN Append(trace, event) ELSE trace

----------------------------------------------------------------------------
(* is_satisfiable and try_solve, one action per step between two tests of  *)
(* the unsatisfied list.                                                   *)

\* a faulty variant of restarts_left: an inclusive range, 0..=n_iter
restarts_left_inclusive(k, n) == k <= n

\* a faulty variant of restarts_left: the range starts at one, 1..n_iter
restarts_left_from_one(k, n) == k + 1 < n

\* is_satisfiable, line 88: for _ in 0..n_iter, after k iterations
restarts_left(k, n) == k < n

\* a faulty variant of walk_left: an inclusive range, 0..=(2 * n_var)
walk_left_inclusive(k, n) == k <= 2 * n

\* try_solve, line 195: for i in 0..(2 * n_var), after k iterations
walk_left(k, n) == k < 2 * n

\* what randomize_assignment can draw: the new assignment and generator
RandomizeDraws ==
    IF stream = "seeded"
    THEN {randomize_assignment(rng, assignment, n_var)}
    ELSE {[rng |-> rng, assignment |-> asg] : asg \in [0..n_var -> BOOLEAN]}

\* what flip_random_var can draw: generate() % len, then random_indicator()
FlipDraws ==
    IF stream = "seeded"
    THEN LET g1 == generate(rng)
             g2 == random_indicator(g1.rng)
         IN  {[rng |-> g2.rng, idx |-> Mod(g1.out, Len(unsatisfied)), ind |-> g2.out]}
    ELSE {[rng |-> rng, idx |-> k, ind |-> b] :
             k \in 0..(Len(unsatisfied) - 1), b \in 0..1}

\* try_solve, line 190: a restart begins with randomize_assignment
Randomize ==
    /\ pc = "try_solve"
    /\ restarts_left(restart, n_iter)
    /\ \E d \in RandomizeDraws :
          /\ assignment' = d.assignment
          /\ rng' = d.rng
          /\ trace' = Record([op |-> "randomize", assignment |-> d.assignment])
    /\ pc' = "partition"
    /\ UNCHANGED <<clauses, n_var, n_iter, stream, satisfied, unsatisfied,
                   restart, i, result, call, first, flips>>

\* a faulty variant of Partition: the test of lines 192-194 is missing, the walk
\* begins whatever the unsatisfied list holds
Partition_no_test ==
    /\ pc = "partition"
    /\ \E p \in {partition(clauses, assignment, satisfied, unsatisfied)} :
           /\ satisfied' = p.satisfied
           /\ unsatisfied' = p.unsatisfied
           /\ trace' = Record([op |-> "partition", satisfied |-> p.satisfied,
                               unsatisfied |-> p.unsatisfied])
    /\ pc' = "walk"
    /\ i' = 0
    /\ UNCHANGED <<clauses, n_var, n_iter, stream, assignment, rng, restart,
                   result, call, first, flips>>

\* try_solve, lines 191-194: partition, then the first test
Partition ==
    /\ pc = "partition"
    /\ \E p \in {partition(clauses, assignment, satisfied, unsatisfied)} :
           /\ satisfied' = p.satisfied
           /\ unsatisfied' = p.unsatisfied
           /\ trace' = Record([op |-> "partition", satisfied |-> p.satisfied,
                               unsatisfied |-> p.unsatisfied])
           /\ IF Len(p.unsatisfied) = 0
              THEN pc' = "done" /\ result' = TRUE
              ELSE pc' = "walk" /\ result' = result
    /\ i' = 0
    /\ UNCHANGED <<clauses, n_var, n_iter, stream, assignment, rng, restart,
                   call, first, flips>>

\* try_solve, lines 195-204: one iteration of the random walk
RandomRepartition ==
    /\ pc = "walk"
    /\ walk_left(i, n_var)
    /\ IF Len(unsatisfied) = 0
       THEN \* random_unsatisfied_idx: remainder by zero
            /\ pc' = "panic"
            /\ UNCHANGED <<satisfied, unsatisfied, assignment, rng, i, result, trace,
                           flips>>
       ELSE \E d \in FlipDraws :
            \E r \in {random_repartition(clauses, assignment, satisfied,
                                         unsatisfied, d.idx, d.ind)} :
                  /\ rng' = d.rng
                  /\ flips' = flips + 1
                  /\ assignment' = r.assignment
                  /\ satisfied' = r.satisfied
                  /\ unsatisfied' = r.unsatisfied
                  /\ trace' = Record([op |-> "flip", clause |-> r.clause,
                                      var |-> r.var, assignment |-> r.assignment,
                                      satisfied |-> r.satisfied,
                                      unsatisfied |-> r.unsatisfied])
                  /\ IF r.panic
                     THEN pc' = "panic" /\ result' = result /\ i' = i
                     ELSE IF Len(r.unsatisfied) = 0
                          THEN pc' = "done" /\ result' = TRUE /\ i' = i
                          ELSE pc' = "walk" /\ result' = result /\ i' = i + 1
    /\ UNCHANGED <<clauses, n_var, n_iter, stream, restart, call, first>>

\* try_solve, line 205: the walk is over, try_solve returns false
Exhausted ==
    /\ pc = "walk"
    /\ ~walk_left(i, n_var)
    /\ pc' = "try_solve"
    /\ restart' = restart + 1
    /\ UNCHANGED <<clauses, n_var, n_iter, stream, satisfied, unsatisfied,
                   assignment, rng, i, result, call, trace, first, flips>>

\* a faulty variant of ReturnFalse: is_satisfiable takes the clauses out of the
\* store (a solver that owns the store in place of borrowing it)
ReturnFalse_takes_store ==
    /\ pc = "try_solve"
    /\ ~restarts_left(restart, n_iter)
    /\ pc' = "done"
    /\ result' = FALSE
    /\ clauses' = <<>>
    /\ UNCHANGED <<n_var, n_iter, stream, satisfied, unsatisfied,
                   assignment, rng, restart, i, call, trace, first, flips>>

\* is_satisfiable, line 93: the loop over the restarts is over
ReturnFalse ==
    /\ pc = "try_solve"
    /\ ~restarts_left(restart, n_iter)
    /\ pc' = "done"
    /\ result' = FALSE
    /\ UNCHANGED <<clauses, n_var, n_iter, stream, satisfied, unsatisfied,
                   assignment, rng, restart, i, call, trace, first, flips>>

\* a faulty variant of CallAgain: the generator outlives the call (a shared generator
\* in place of the one built from the seed at line 86)
CallAgain_shared_rng ==
    /\ pc = "done"
    /\ stream = "seeded"
    /\ call = 1
    /\ LET solver == TwoSATSolver_new(n_var, Seed)
       IN  /\ satisfied' = solver.satisfied
           /\ unsatisfied' = solver.unsatisfied
           /\ assignment' = solver.assignment
    /\ rng' = rng
    /\ pc' = "try_solve"
    /\ restart' = 0
    /\ i' = 0
    /\ result' = FALSE
    /\ call' = 2
    /\ trace' = <<>>
    /\ first' = [trace |-> trace, result |-> result]
    /\ flips' = 0
    /\ UNCHANGED <<clauses, n_var, n_iter, stream>>

\* the caller calls is_satisfiable again on the same store, with the same
\* budget: line 86 builds a new solver.  (Followed for the seeded stream.)
CallAgain ==
    /\ pc = "done"
    /\ stream = "seeded"
    /\ call = 1
    /\ LET solver == TwoSATSolver_new(n_var, Seed)
       IN  /\ satisfied' = solver.satisfied
           /\ unsatisfied' = solver.unsatisfied
           /\ assignment' = solver.assignment
           /\ rng' = solver.rng
    /\ pc' = "try_solve"
    /\ restart' = 0
    /\ i' = 0
    /\ result' = FALSE
    /\ call' = 2
    /\ trace' = <<>>
    /\ first' = [trace |-> trace, result |-> result]
    /\ flips' = 0
    /\ UNCHANGED <<clauses, n_var, n_iter, stream>>

Next ==
    \/ Randomize
    \/ Partition
    \/ RandomRepartition
    \/ Exhausted
    \/ ReturnFalse
    \/ CallAgain

Spec == Init /\ [][Next]_vars

----------------------------------------------------------------------------
(* Vocabulary of the properties. *)

\* clause k of the store holds under the current assignment (brute force)
Holds(k) ==
    \E slot \in 1..2 : assignment[clauses[k].vars[slot]] = clauses[k].allow[slot]

AllHold == \A k \in 1..Len(clauses) : Holds(k)

\* every clause is over two distinct variables of 1..n_var
WellFormed ==
    \A k \in 1..Len(clauses) :
        /\ clauses[k].vars[1] \in 1..n_var
        /\ clauses[k].vars[2] \in 1..n_var
        /\ clauses[k].vars[1] # clauses[k].vars[2]

\* no clause is written twice in the store
NoDuplicates ==
    \A k, l \in 1..Len(clauses) : clauses[k] = clauses[l] => k = l

\* the number of entries of a list that refer to clause k of the store
Count(list, k) == Cardinality({p \in 1..Len(list) : list[p] = k})

\* partition or random_repartition has just run (and did not panic)
Partitioned == pc = "walk" \/ (pc = "done" /\ result)

ListsEmpty ==
    /\ Len(unsatisfied) = 0
    /\ \A v \in 0..n_var : Len(satisfied[v]) = 0

IsTest(inst) == n_var = inst.n /\ clauses = inst.cl

TypeOK ==
    /\ pc \in {"try_solve", "partition", "walk", "done", "panic"}
    /\ restart \in 0..n_iter
    /\ i \in 0..(2 * n_var)
    /\ result \in BOOLEAN

----------------------------------------------------------------------------
(* C1: no false positives.  For clauses over two distinct variables of     *)
(* 1..n_var, any budget and any stream of drawn values, whenever           *)
(* is_satisfiable returns true the assignment the solver holds satisfies   *)
(* every clause of the store.                                              *)
C1_NoFalsePositive ==
    (WellFormed /\ pc = "done" /\ result) => AllHold

\* true is returned from the random walk of a later restart
C1_Witness ==
    /\ WellFormed /\ pc = "done" /\ result /\ AllHold
    /\ restart >= 1 /\ i >= 1 /\ Len(clauses) >= 2

(* C2: on the UNSAT instance of test2 (all four sign combinations over x1, *)
(* x2) is_satisfiable returns false, for every budget of the model, for    *)
(* the budget 10 of the test, with the seeded and with any stream; it does *)
(* not panic either.                                                       *)
C2_UnsatReturnsFalse ==
    IsTest(UNSAT) => (pc # "panic" /\ (pc = "done" => result = FALSE))

\* test2 itself has run to its end: ten restarts, all exhausted
C2_Witness ==
    /\ IsTest(UNSAT) /\ stream = "seeded" /\ n_iter = Test2Restarts
    /\ pc = "done" /\ result = FALSE /\ restart = Test2Restarts

(* C3: on the SAT instance of test1, with the built-in seed 42 and a       *)
(* budget of 100 restarts, is_satisfiable returns true.                    *)
C3_SatSeededReturnsTrue ==
    (IsTest(SAT) /\ stream = "seeded" /\ n_iter = Test1Restarts)
        => (pc # "panic" /\ (pc = "done" => result = TRUE))

\* test1 itself has returned
C3_Witness ==
    /\ IsTest(SAT) /\ stream = "seeded" /\ n_iter = Test1Restarts
    /\ pc = "done" /\ result = TRUE

(* C4: partition invariant.  After partition and after every               *)
(* random_repartition, in every restart, each clause of the store either   *)
(* has exactly one entry in the satisfied list of each of its two          *)
(* variables and none in the unsatisfied list, or exactly one entry in the *)
(* unsatisfied list and none in any satisfied list; and it is in the first *)
(* situation iff it holds under the current assignment.  (Stated for       *)
(* stores of distinct clauses over two distinct variables and the stream   *)
(* of the built-in seed.)                                                  *)
C4_PartitionInvariant ==
    (stream = "seeded" /\ WellFormed /\ NoDuplicates /\ Partitioned) =>
        \A k \in 1..Len(clauses) :
            LET a == Count(satisfied[clauses[k].vars[1]], k)
                b == Count(satisfied[clauses[k].vars[2]], k)
                u == Count(unsatisfied, k)
                elsewhere ==
                    \E v \in (0..n_var) \ {clauses[k].vars[1], clauses[k].vars[2]} :
                        Count(satisfied[v], k) > 0
            IN  /\ ~elsewhere
                /\ \/ Holds(k) /\ a = 1 /\ b = 1 /\ u = 0
                   \/ ~Holds(k) /\ a = 0 /\ b = 0 /\ u = 1

(* C5: after partition and after every random_repartition, in every        *)
(* restart, the unsatisfied list is empty iff a brute-force evaluation     *)
(* finds every clause of the store satisfied by the current assignment     *)
(* (stated for the stream of the built-in seed).                           *)
C5_SolvedIffAllHold ==
    (stream = "seeded" /\ WellFormed /\ Partitioned)
        => ((Len(unsatisfied) = 0) <=> AllHold)

(* C6: the partition is fresh per restart: when partition is about to      *)
(* classify the clauses, in any restart, every satisfied list and the      *)
(* unsatisfied list are empty (stated for the stream of the built-in       *)
(* seed).                                                                  *)
C6_FreshPerRestart ==
    (stream = "seeded" /\ pc = "partition") => ListsEmpty

(* C7: in every restart, if the freshly drawn assignment satisfies every   *)
(* clause, try_solve returns true right after partition, without a flip:   *)
(* the walk is never entered with an assignment under which all clauses    *)
(* hold (stated for the stream of the built-in seed).                      *)
C7_SolvedAtOnce ==
    (stream = "seeded" /\ WellFormed /\ pc = "walk" /\ i = 0) => ~AllHold

(* C8: is_satisfiable runs at most n_iter restarts; it stops at the first  *)
(* restart that reaches an empty unsatisfied list and returns true; it     *)
(* returns false exactly when all n_iter restarts ended by exhausting      *)
(* their 2 * n_var steps with the list still non-empty; and, for clauses   *)
(* over two distinct variables, these are the only outcomes.               *)
C8_Outcomes ==
    /\ restart <= n_iter
    /\ pc \in {"partition", "walk"} => restart < n_iter
    /\ pc = "walk" => Len(unsatisfied) > 0
    /\ (pc = "try_solve" /\ restart > 0) => (i = 2 * n_var /\ Len(unsatisfied) > 0)
    /\ (pc = "done" /\ result) => (Len(unsatisfied) = 0 /\ restart < n_iter)
    /\ (pc = "done" /\ ~result) =>
          /\ restart = n_iter
          /\ n_iter > 0 => (i = 2 * n_var /\ Len(unsatisfied) > 0)
    /\ WellFormed => pc # "panic"

\* false is returned after every restart of the budget was exhausted
C8_Witness ==
    /\ WellFormed /\ pc = "done" /\ ~result
    /\ n_iter >= 2 /\ restart = n_iter /\ i = 2 * n_var

(* C9: for clauses over two distinct variables of 1..n_var, any budget and *)
(* any stream of drawn values, is_satisfiable never panics: no index is    *)
(* out of range, remove_clause_at always finds its clause, and the         *)
(* remainder of random_unsatisfied_idx is never taken modulo zero.         *)
C9_NoPanic ==
    WellFormed => (pc # "panic" /\ (pc = "walk" => Len(unsatisfied) > 0))

\* a walk of a later restart, on lists that hold entries of earlier restarts
C9_Witness ==
    /\ WellFormed /\ stream = "free" /\ pc = "walk" /\ restart >= 1 /\ i >= 1
    /\ \E v \in 1..n_var : Len(satisfied[v]) > Len(clauses)

----------------------------------------------------------------------------
(* C11, as claimed: for a store with n_var = 0 or without clauses,         *)
(* is_satisfiable returns true for every budget n_iter >= 0.               *)
C11_EmptyReturnsTrue ==
    ((n_var = 0 \/ Len(clauses) = 0) /\ pc = "done") => result = TRUE

(* C11: for a store with n_var = 0 or without clauses, is_satisfiable      *)
(* returns true for every budget n_iter >= 1, in its first restart and     *)
(* without a flip; with the budget 0 no restart runs and it returns false. *)
C11_EmptyReturnsTrueIfTried ==
    (n_var = 0 \/ Len(clauses) = 0) =>
        /\ pc \notin {"walk", "panic"}
        /\ pc = "done" => (result = (n_iter >= 1) /\ restart = 0 /\ flips = 0)

\* true is returned for a store without clauses over two variables
C11_Witness ==
    /\ n_var = 2 /\ Len(clauses) = 0 /\ n_iter >= 1
    /\ pc = "done" /\ result = TRUE

\* the store is one clause that names one variable with both polarities, as "1\n1 -1\n"
OneContradictoryClause ==
    /\ Len(clauses) = 1
    /\ clauses[1].vars[1] = clauses[1].vars[2]
    /\ clauses[1].allow[1] # clauses[1].allow[2]

(* C12, as claimed: a store of a single clause whose two literals name the *)
(* same variable with opposite polarity (n = 1, clause `1 -1`) is          *)
(* unsatisfiable: is_satisfiable returns false for every budget.           *)
C12_ContradictoryIsUnsat ==
    (OneContradictoryClause /\ pc = "done") => result = FALSE

(* C12: a store of a single clause whose two literals name the same        *)
(* variable with opposite polarity holds under every assignment:           *)
(* is_satisfied is true of it whatever was drawn, partition leaves the     *)
(* unsatisfied list empty, and is_satisfiable returns true for every       *)
(* budget n_iter >= 1, without a flip and without a panic (false only for  *)
(* the budget 0).                                                          *)
C12_ContradictoryIsTautology ==
    OneContradictoryClause =>
        /\ is_satisfied(assignment, clauses[1])
        /\ pc \notin {"walk", "panic"}
        /\ pc = "done" => (result = (n_iter >= 1) /\ restart = 0 /\ flips = 0)

\* true is returned for the store "1\n1 -1\n"
C12_Witness ==
    /\ OneContradictoryClause /\ n_var = 1 /\ clauses[1] = Clause_from_str(1, -1)
    /\ n_iter >= 1 /\ pc = "done" /\ result = TRUE

\* the two loops of random_repartition, run for variable v on the lists and the
\* assignment as they stand, leave the lists as they are
ScanIsNoOp(v) ==
    LET r == repartition_after_flip(clauses, assignment, satisfied, unsatisfied, v)
    IN  ~r.panic /\ r.satisfied = satisfied /\ r.unsatisfied = unsatisfied

(* C13: idempotence.  In every state reached after partition or after a    *)
(* random_repartition, in any restart, running the two loops of            *)
(* random_repartition for a variable whose value was not flipped leaves    *)
(* every satisfied list and the unsatisfied list unchanged (stated for     *)
(* clauses over two distinct variables and the stream of the built-in      *)
(* seed).                                                                  *)
C13_RepartitionIdempotent ==
    (stream = "seeded" /\ WellFormed /\ Partitioned) =>
        \A v \in 1..n_var : ScanIsNoOp(v)

\* C13 within the first restart, where the lists started empty
C13_FirstRestartIdempotent ==
    (WellFormed /\ Partitioned /\ restart = 0) =>
        \A v \in 1..n_var : ScanIsNoOp(v)

\* the latest event of the seeded trace is a flip
LastIsFlip == Len(trace) > 0 /\ trace[Len(trace)].op = "flip"

\* the assignment as it stood just before the latest flip
BeforeLastFlip ==
    LET e == trace[Len(trace)]
    IN  [e.assignment EXCEPT ![e.var] = ~@]

(* C14: in every random-walk step of every restart, the clause chosen by   *)
(* flip_random_var is unsatisfied under the assignment as it stands just   *)
(* before the flip, and the flipped variable is one of the two variables   *)
(* of that clause (stated for clauses over two distinct variables and the  *)
(* stream of the built-in seed, whose steps the trace records).            *)
C14_ChosenClauseUnsatisfied ==
    (stream = "seeded" /\ WellFormed /\ LastIsFlip) =>
        LET e == trace[Len(trace)]
        IN  /\ ~is_satisfied(BeforeLastFlip, clauses[e.clause])
            /\ e.var \in {clauses[e.clause].vars[1], clauses[e.clause].vars[2]}

\* C14 within the first restart, for any draws: every entry flip_random_var can
\* choose is a clause that fails, and the variable it flips is one of the clause's
C14_FirstRestartChoice ==
    (WellFormed /\ pc = "walk" /\ restart = 0) =>
        \A d \in FlipDraws :
            LET f == flip_random_var(clauses, assignment, unsatisfied, d.idx, d.ind)
            IN  /\ ~is_satisfied(assignment, clauses[f.clause])
                /\ f.var \in {clauses[f.clause].vars[1], clauses[f.clause].vars[2]}
                /\ f.clause = unsatisfied[d.idx + 1]

\* C14, second half, in every restart: the flipped variable is one of the chosen
\* clause's two variables
C14_FlippedVarOfClause ==
    (stream = "seeded" /\ LastIsFlip) =>
        LET e == trace[Len(trace)]
        IN  e.var \in {clauses[e.clause].vars[1], clauses[e.clause].vars[2]}

\* this step is one call of random_repartition (it may end in true, or in a panic
\* of remove_clause_at, after the flip)
WalkStep == pc = "walk" /\ flips' = flips + 1

(* C15: each random-walk step (one call of random_repartition) changes     *)
(* exactly one entry of the assignment: it negates the value of one        *)
(* variable of a clause of the unsatisfied list; every other entry of the  *)
(* assignment, the clause store and n_var are unchanged.                   *)
C15_StepFlipsOneEntry ==
    [][WalkStep =>
        /\ clauses' = clauses
        /\ n_var' = n_var
        /\ \E p \in 1..Len(unsatisfied) : \E slot \in 1..2 :
              LET v == clauses[unsatisfied[p]].vars[slot]
              IN  /\ assignment'[v] = ~assignment[v]
                  /\ \A w \in (0..n_var) \ {v} : assignment'[w] = assignment[w]
                  /\ DOMAIN assignment' = DOMAIN assignment]_vars

\* a step of a later restart has flipped the second variable of a store of two
\* clauses
C15_Witness ==
    /\ stream = "seeded" /\ LastIsFlip /\ restart >= 1 /\ Len(clauses) = 2
    /\ trace[Len(trace)].var = 2
    /\ assignment = trace[Len(trace)].assignment
    /\ assignment[1] = BeforeLastFlip[1] /\ assignment[2] = ~BeforeLastFlip[2]

\* the steps of one try_solve: Randomize, Partition, at most 2 * n_var walk steps,
\* Exhausted
StepsPerRestart == 2 * n_var + 3

\* how far the call has come: it grows with every step and is bounded
Rank ==
    IF pc \in {"done", "panic"} THEN (n_iter + 1) * StepsPerRestart
    ELSE restart * StepsPerRestart
         + (CASE pc = "try_solve" -> 0
              [] pc = "partition" -> 1
              [] pc = "walk"      -> 2 + i)

\* the flips of the restart that is running (or that ended last)
FlipsOfRestart ==
    IF pc = "try_solve" THEN 0 ELSE flips - restart * 2 * n_var

(* C16: each restart performs at most 2 * n_var flips; a restart that has  *)
(* performed 2 * n_var flips with the unsatisfied list still non-empty     *)
(* ends in failure and control is back at the loop of is_satisfiable; one  *)
(* call performs at most n_iter * 2 * n_var flips; and the call            *)
(* terminates: every step of the call raises a rank that is bounded, the   *)
(* walk that has used its steps can only be left for the loop of           *)
(* is_satisfiable, and when the budget is used up is_satisfiable returns.  *)
C16_BoundedFlips ==
    /\ [](/\ i <= 2 * n_var
          /\ FlipsOfRestart \in 0..(2 * n_var)
          /\ flips <= n_iter * 2 * n_var
          /\ (pc = "try_solve" /\ restart > 0) =>
                (flips = restart * 2 * n_var /\ Len(unsatisfied) > 0)
          /\ (pc = "walk" /\ i = 2 * n_var) => ENABLED Exhausted
          /\ (pc = "try_solve" /\ restart = n_iter) => ENABLED ReturnFalse
          /\ Rank \in 0..((n_iter + 1) * StepsPerRestart))
    /\ [][call' = call => Rank' > Rank]_vars

\* a restart has used its 2 * n_var flips and failed, and another one runs
C16_Witness ==
    /\ n_var = 2 /\ restart = 1 /\ pc = "walk" /\ i = 2 * n_var
    /\ flips = 2 * (2 * n_var) /\ Len(unsatisfied) > 0

\* the number of entries of a list whose clause equals clause k of the store
CountValue(list, k) ==
    Cardinality({p \in 1..Len(list) : clauses[list[p]] = clauses[k]})

\* what the first loop of random_repartition makes of the lists, once
\* flip_random_var has flipped with the draw d
FirstLoopAfter(d) ==
    LET f == flip_random_var(clauses, assignment, unsatisfied, d.idx, d.ind)
    IN  first_loop(clauses, f.assignment, satisfied, unsatisfied, f.var,
                   0, Len(satisfied[f.var]), 0)

\* the first loop has done to the lists what step (a) says, for the flipped
\* variable v, the assignment asg after the flip and the lists r1 it returned
StepA(v, asg, r1) ==
    /\ ~r1.panic
    /\ SubSeq(r1.unsatisfied, 1, Len(unsatisfied)) = unsatisfied
    /\ \A p \in 1..Len(r1.satisfied[v]) :
          is_satisfied(asg, clauses[r1.satisfied[v][p]])
    /\ \A k \in 1..Len(clauses) :
          LET gone == IF is_satisfied(asg, clauses[k]) THEN 0
                      ELSE Count(satisfied[v], k)
              goneValue == IF is_satisfied(asg, clauses[k]) THEN 0
                           ELSE CountValue(satisfied[v], k)
          IN  /\ Count(r1.satisfied[v], k) = Count(satisfied[v], k) - gone
              /\ Count(r1.unsatisfied, k) = Count(unsatisfied, k) + gone
              /\ \A o \in (0..n_var) \ {v} :
                    CountValue(r1.satisfied[o], k) =
                        CountValue(satisfied[o], k)
                        - (IF o = other_var(clauses[k], v) THEN goneValue ELSE 0)

(* C17: repartition step (a).  After variable v is flipped, the first loop *)
(* removes from v's satisfied list every entry whose clause no longer      *)
(* holds, removes for each of them one entry of the same clause from the   *)
(* satisfied list of the clause's other variable, and appends the clause   *)
(* once to the unsatisfied list; the entries of v's list whose clause      *)
(* still holds stay, the other lists lose nothing else, and afterwards no  *)
(* entry of v's satisfied list is a clause that fails.  (For clauses over  *)
(* two distinct variables, in every restart, for every draw.)              *)
C17_StepA ==
    (WellFormed /\ pc = "walk" /\ walk_left(i, n_var)) =>
        \A d \in FlipDraws :
            \A f \in {flip_random_var(clauses, assignment, unsatisfied, d.idx, d.ind)} :
                \A r1 \in {FirstLoopAfter(d)} : StepA(f.var, f.assignment, r1)

\* a flip after which the first loop removes one entry of the flipped variable's
\* list and keeps another, in a later restart
C17_Witness ==
    /\ WellFormed /\ pc = "walk" /\ walk_left(i, n_var) /\ restart >= 1
    /\ \E d \in FlipDraws :
          LET f  == flip_random_var(clauses, assignment, unsatisfied, d.idx, d.ind)
              r1 == FirstLoopAfter(d)
          IN  /\ StepA(f.var, f.assignment, r1)
              /\ Len(r1.satisfied[f.var]) > 0
              /\ Len(r1.satisfied[f.var]) < Len(satisfied[f.var])
              /\ Len(r1.unsatisfied) > Len(unsatisfied)

\* what the second loop of random_repartition makes of the lists r1 the first
\* loop returned, for the assignment asg after the flip
SecondLoopAfter(asg, r1) ==
    second_loop(clauses, asg, r1.satisfied, r1.unsatisfied, Len(unsatisfied) - 1)

\* the second loop has done to the lists r1 what step (b) says, and returned r2
StepB(asg, r1, r2) ==
    /\ \A p \in 1..Len(r2.unsatisfied) :
          ~is_satisfied(asg, clauses[r2.unsatisfied[p]])
    /\ \A v \in 0..n_var :
          SubSeq(r2.satisfied[v], 1, Len(r1.satisfied[v])) = r1.satisfied[v]
    /\ \A k \in 1..Len(clauses) :
          LET moved == IF is_satisfied(asg, clauses[k])
                       THEN Count(unsatisfied, k) ELSE 0
          IN  /\ Count(r2.unsatisfied, k) = Count(r1.unsatisfied, k) - moved
              /\ ~is_satisfied(asg, clauses[k]) =>
                    Count(r2.unsatisfied, k) >= Count(unsatisfied, k)
              /\ \A v \in 0..n_var :
                    Count(r2.satisfied[v], k) =
                        Count(r1.satisfied[v], k)
                        + (IF v \in {clauses[k].vars[1], clauses[k].vars[2]}
                           THEN moved ELSE 0)

(* C18: repartition step (b).  After the flip, the second loop removes     *)
(* from the unsatisfied list every entry that was in it before the step    *)
(* and whose clause now holds, and appends the clause once to the          *)
(* satisfied list of each of its two variables; every entry whose clause   *)
(* still fails remains in the unsatisfied list (so do the entries the      *)
(* first loop appended), although swap_remove reorders the list during the *)
(* reverse scan.  (For clauses over two distinct variables, in every       *)
(* restart, for every draw.)                                               *)
C18_StepB ==
    (WellFormed /\ pc = "walk" /\ walk_left(i, n_var)) =>
        \A d \in FlipDraws :
            \A f \in {flip_random_var(clauses, assignment, unsatisfied, d.idx, d.ind)} :
                \A r1 \in {FirstLoopAfter(d)} :
                    \A r2 \in {SecondLoopAfter(f.assignment, r1)} :
                        StepB(f.assignment, r1, r2)

\* a flip after which the second loop moves one entry to the satisfied lists, an
\* entry appended by the first loop takes its place (swap_remove), and another,
\* older entry stays in the unsatisfied list
C18_Witness ==
    /\ WellFormed /\ pc = "walk" /\ walk_left(i, n_var)
    /\ \E d \in FlipDraws :
          LET f  == flip_random_var(clauses, assignment, unsatisfied, d.idx, d.ind)
              r1 == FirstLoopAfter(d)
              r2 == SecondLoopAfter(f.assignment, r1)
          IN  /\ StepB(f.assignment, r1, r2)
              /\ Len(r2.unsatisfied) < Len(r1.unsatisfied)
              /\ Len(r1.unsatisfied) > Len(unsatisfied)
              /\ \E p \in 1..Len(unsatisfied) :
                    ~is_satisfied(f.assignment, clauses[unsatisfied[p]])

\* the sequence `tested` names each of the indices 0..(len - 1) exactly once
EachOnce(tested, len) ==
    /\ Len(tested) = len
    /\ \A t \in 0..(len - 1) :
          Cardinality({p \in 1..Len(tested) : tested[p] = t}) = 1

(* C19: in one pass of random_repartition no entry is tested twice and     *)
(* none is skipped: each entry the flipped variable's satisfied list had   *)
(* at the start of the pass is tested exactly once by the first loop, each *)
(* entry the unsatisfied list had at the start of the pass is tested       *)
(* exactly once by the second loop (from the last one down to the first),  *)
(* and the entries the first loop appends to the unsatisfied list are not  *)
(* tested by the second loop.  The recording loops compute the lists that  *)
(* random_repartition computes.  (For clauses over two distinct variables, *)
(* in every restart, for every draw.)                                      *)
C19_EachEntryTestedOnce ==
    (WellFormed /\ pc = "walk" /\ walk_left(i, n_var)) =>
        \A d \in FlipDraws :
            \A f \in {flip_random_var(clauses, assignment, unsatisfied, d.idx, d.ind)} :
                \A t \in {repartition_tested(clauses, f.assignment, satisfied,
                                             unsatisfied, f.var)} :
                    \A r \in {repartition_after_flip(clauses, f.assignment, satisfied,
                                                     unsatisfied, f.var)} :
                        /\ ~t.panic /\ ~r.panic
                        /\ t.satisfied = r.satisfied
                        /\ t.unsatisfied = r.unsatisfied
                        /\ EachOnce(t.first, Len(satisfied[f.var]))
                        /\ EachOnce(t.second, Len(unsatisfied))
                        /\ \A p \in 1..Len(t.second) :
                              /\ t.second[p] # Appended
                              /\ t.second[p] = Len(unsatisfied) - p

\* a pass in which the first loop removes an entry that is not the last of its list
\* and appends it to the unsatisfied list, and the second loop removes an entry
C19_Witness ==
    /\ WellFormed /\ pc = "walk" /\ walk_left(i, n_var)
    /\ \E d \in FlipDraws :
          LET f == flip_random_var(clauses, assignment, unsatisfied, d.idx, d.ind)
              t == repartition_tested(clauses, f.assignment, satisfied,
                                      unsatisfied, f.var)
              r1 == FirstLoopAfter(d)
          IN  /\ ~t.panic
              /\ EachOnce(t.first, Len(satisfied[f.var]))
              /\ EachOnce(t.second, Len(unsatisfied))
              /\ Len(t.first) >= 3 /\ Len(t.second) >= 1
              /\ \E p \in 2..Len(t.first) : t.first[p] < t.first[p - 1]
              /\ Len(r1.unsatisfied) > Len(unsatisfied)
              /\ Len(t.unsatisfied) < Len(r1.unsatisfied)

\* the list names the clauses of the set S, each once, in the order of the store
InStoreOrder(list, S) ==
    /\ {list[p] : p \in 1..Len(list)} = S
    /\ \A p \in 1..(Len(list) - 1) : list[p] < list[p + 1]

(* C20: partition, run on empty lists, classifies every clause of the      *)
(* store exactly once: afterwards the unsatisfied list holds exactly the   *)
(* clauses that fail under the assignment, in store order, and for each    *)
(* variable v the satisfied list of v holds exactly the clauses that hold  *)
(* and mention v, in store order, where a clause holds iff the assigned    *)
(* value of at least one of its two variables equals the polarity its      *)
(* literal requires.  (The lists are empty when the first restart of a     *)
(* call partitions; stated for clauses over two distinct variables.)       *)
C20_PartitionClassifies ==
    (WellFormed /\ Partitioned /\ restart = 0 /\ flips = 0) =>
        /\ InStoreOrder(unsatisfied, {k \in 1..Len(clauses) : ~Holds(k)})
        /\ \A v \in 0..n_var :
              InStoreOrder(satisfied[v],
                           {k \in 1..Len(clauses) :
                               /\ Holds(k)
                               /\ v \in {clauses[k].vars[1], clauses[k].vars[2]}})

\* the first partition of a call on the store SAT has left one clause unsatisfied
\* and two in the satisfied list of each variable
C20_Witness ==
    /\ IsTest(SAT) /\ pc = "walk" /\ restart = 0 /\ flips = 0
    /\ Len(unsatisfied) = 1
    /\ Len(satisfied[1]) = 2 /\ Len(satisfied[2]) = 2
    /\ unsatisfied[1] = 2

----------------------------------------------------------------------------
\* the lists hold more than one entry of some clause: an earlier restart of this
\* call left entries
StaleEntries ==
    \E k \in 1..Len(clauses) :
        Count(unsatisfied, k) + Count(satisfied[clauses[k].vars[1]], k) >= 2

(* C21: coverage across restarts.  After partition and after every         *)
(* random_repartition, in every restart of a call, every clause that fails *)
(* under the current assignment has at least one entry in the unsatisfied  *)
(* list, and every clause that holds has at least one entry in the         *)
(* satisfied list of each of its two variables, whatever entries earlier   *)
(* restarts left.  (For clauses over two distinct variables.)              *)
C21_Coverage ==
    (WellFormed /\ Partitioned) =>
        \A k \in 1..Len(clauses) :
            IF Holds(k)
            THEN /\ Count(satisfied[clauses[k].vars[1]], k) >= 1
                 /\ Count(satisfied[clauses[k].vars[2]], k) >= 1
            ELSE Count(unsatisfied, k) >= 1

\* after a step of a later restart, on lists with entries of an earlier one, one
\* clause of the store holds and another fails
C21_Witness ==
    /\ WellFormed /\ pc = "walk" /\ restart >= 1 /\ i >= 1
    /\ Len(clauses) >= 2 /\ StaleEntries
    /\ \E k, l \in 1..Len(clauses) :
          /\ Holds(k) /\ Count(satisfied[clauses[k].vars[1]], k) >= 2
          /\ ~Holds(l) /\ Count(unsatisfied, l) >= 1

(* C22: after every random_repartition, in every restart, each entry of    *)
(* the unsatisfied list is a clause that fails under the current           *)
(* assignment: the entries that hold, those left by an earlier restart     *)
(* included, are all moved out by the second loop of the first step of the *)
(* restart.  (For clauses over two distinct variables.)                    *)
C22_UnsatisfiedEntriesFail ==
    (WellFormed /\ Partitioned /\ flips > restart * 2 * n_var) =>
        \A p \in 1..Len(unsatisfied) : ~Holds(unsatisfied[p])

\* the first step of a later restart has moved out an entry that an earlier restart
\* left in the unsatisfied list although its clause held
C22_Witness ==
    /\ WellFormed /\ stream = "seeded" /\ pc = "walk" /\ restart >= 1 /\ i = 1
    /\ LastIsFlip
    /\ \E p \in 1..Len(trace[Len(trace) - 1].unsatisfied) :
          LET k == trace[Len(trace) - 1].unsatisfied[p]
          IN  /\ is_satisfied(BeforeLastFlip, clauses[k])
              /\ Holds(k)
              /\ Count(unsatisfied, k) = 0
    /\ \A p \in 1..Len(unsatisfied) : ~Holds(unsatisfied[p])

\* the entries of all satisfied lists together
RECURSIVE SatisfiedEntries(_)
SatisfiedEntries(v) ==
    IF v < 0 THEN 0 ELSE Len(satisfied[v]) + SatisfiedEntries(v - 1)

(* C23: entries are never dropped between restarts.  Within one call,      *)
(* after the k-th partition and after every later random_repartition of    *)
(* that restart, the entries of the unsatisfied list plus half the entries *)
(* of all satisfied lists are k times the clauses of the store.  (For      *)
(* clauses over two distinct variables; k = restart + 1.)                  *)
C23_EntriesAccumulate ==
    (WellFormed /\ Partitioned) =>
        2 * Len(unsatisfied) + SatisfiedEntries(n_var)
            = 2 * (restart + 1) * Len(clauses)

\* the third partition of a call on a store of several clauses, and a step after it
C23_Witness ==
    /\ WellFormed /\ pc = "walk" /\ restart = 2 /\ i >= 1 /\ Len(clauses) >= 2
    /\ 2 * Len(unsatisfied) + SatisfiedEntries(n_var) = 6 * Len(clauses)
    /\ Len(unsatisfied) >= 1 /\ SatisfiedEntries(n_var) >= 2

\* the position the call is at lies between two steps: not inside random_repartition
\* (the model takes random_repartition as one step, so every state that has not
\* panicked is one)
StepBoundary == pc # "panic"

(* C24: paired entries.  For every clause c of the store over two distinct *)
(* variables a and b, at every step boundary the satisfied list of a holds *)
(* as many entries equal to c as the satisfied list of b; hence whenever   *)
(* the first loop of random_repartition takes c out of the flipped         *)
(* variable's list, remove_clause_at finds an equal entry in the list of   *)
(* the other variable.                                                     *)
C24_PairedEntries ==
    (WellFormed /\ StepBoundary) =>
        /\ \A k \in 1..Len(clauses) :
              CountValue(satisfied[clauses[k].vars[1]], k)
                  = CountValue(satisfied[clauses[k].vars[2]], k)
        /\ (pc = "walk" /\ walk_left(i, n_var)) =>
              \A d \in FlipDraws : \A r1 \in {FirstLoopAfter(d)} : ~r1.panic

\* a walk state of a later restart in which a flip makes the first loop take an
\* entry out of both lists of a clause that has several entries in each
C24_Witness ==
    /\ WellFormed /\ pc = "walk" /\ walk_left(i, n_var) /\ restart >= 1
    /\ \E d \in FlipDraws :
          LET f  == flip_random_var(clauses, assignment, unsatisfied, d.idx, d.ind)
              r1 == FirstLoopAfter(d)
          IN  /\ ~r1.panic
              /\ \E k \in 1..Len(clauses) :
                    LET o == other_var(clauses[k], f.var)
                    IN  /\ CountValue(satisfied[f.var], k) >= 2
                        /\ CountValue(satisfied[o], k) = CountValue(satisfied[f.var], k)
                        /\ CountValue(r1.satisfied[o], k) = 0
                        /\ CountValue(r1.satisfied[f.var], k) = 0

(* C25: random_unsatisfied_idx, which takes a remainder modulo the length  *)
(* of the unsatisfied list, only runs when that list is not empty, and the *)
(* index it returns is within the list, in every restart and every step.   *)
C25_IndexInRange ==
    (pc = "walk" /\ walk_left(i, n_var)) =>
        /\ Len(unsatisfied) > 0
        /\ FlipDraws # {}
        /\ \A d \in FlipDraws :
              /\ d.idx \in 0..(Len(unsatisfied) - 1)
              /\ flip_random_var(clauses, assignment, unsatisfied, d.idx, d.ind).clause
                    = unsatisfied[d.idx + 1]

\* the generator's value is reduced modulo a list of several entries in a later
\* restart, and the index is not 0
C25_Witness ==
    /\ stream = "seeded" /\ pc = "walk" /\ walk_left(i, n_var) /\ restart >= 1
    /\ Len(unsatisfied) >= 3
    /\ \E d \in FlipDraws : d.idx \in 1..(Len(unsatisfied) - 1)

(* C26: for stores that hold clauses whose two literals name the same      *)
(* variable (as n = 1 with the clauses `1 1` and `-1 -1`), is_satisfiable  *)
(* still returns a boolean: the first loop of random_repartition never     *)
(* reads an index past the end of the flipped variable's satisfied list.   *)
(* (Stated for the store "1\n1 1\n-1 -1\n" and the stream of the built-in  *)
(* seed.)                                                                  *)
C26_SameVariableNoPanic ==
    (IsTest(SameVarStore) /\ stream = "seeded") => pc # "panic"

(* C27: other_var(clause, v).  For a clause over two distinct variables,   *)
(* given v equal to the clause's first variable it returns the second, and *)
(* given v equal to the second it returns the first; it never returns v    *)
(* itself.  (Over every clause of every store of the model.)               *)
C27_OtherVar ==
    WellFormed =>
        \A k \in 1..Len(clauses) :
            /\ other_var(clauses[k], clauses[k].vars[1]) = clauses[k].vars[2]
            /\ other_var(clauses[k], clauses[k].vars[2]) = clauses[k].vars[1]
            /\ \A v \in {clauses[k].vars[1], clauses[k].vars[2]} :
                  other_var(clauses[k], v) # v

\* a store with a clause whose first variable is the larger one, in the walk
C27_Witness ==
    /\ WellFormed /\ pc = "walk" /\ i >= 1
    /\ \E k \in 1..Len(clauses) :
          /\ clauses[k].vars[1] > clauses[k].vars[2]
          /\ other_var(clauses[k], clauses[k].vars[1]) = clauses[k].vars[2]
          /\ other_var(clauses[k], clauses[k].vars[2]) = clauses[k].vars[1]

(* C28: the clause store is never mutated by solving: the sequence of      *)
(* clauses (order, variables, polarities) and n_var are the same after     *)
(* every step of is_satisfiable (restarts, partitions, flips, also a panic *)
(* and a second call) as before it.                                        *)
C28_StoreUnchanged ==
    [][clauses' = clauses /\ n_var' = n_var]_vars

\* several restarts, partitions and flips have run on a store of several clauses
C28_Witness ==
    /\ Len(clauses) >= 2 /\ restart >= 1 /\ flips >= 5 /\ pc = "walk" /\ i >= 1
    /\ \E k \in 1..Len(clauses) : Count(unsatisfied, k) >= 1

----------------------------------------------------------------------------
(* The arithmetic of C29, written bit by bit on 64-bit words, apart from   *)
(* the operators the actions use.                                          *)

\* x ^ (x << k): bit b is bit b of x, inverted when bit b - k of x is set
XorShiftedLeft(x, k) == {b \in 0..63 : (b \in x) # ((b - k) \in x)}

\* x ^ (x >> k): bit b is bit b of x, inverted when bit b + k of x is set
XorShiftedRight(x, k) == {b \in 0..63 : (b \in x) # ((b + k) \in x)}

\* the bits of 0x2545F4914F6CDD1D
MultiplierBits == UNION {BitsOf(Multiplier[j], 8 * j) : j \in 0..7}

\* x times the multiplier modulo 2^64, from bit n on: the ones of column n of the
\* long multiplication in base 2 are counted, with the carry from the columns below
RECURSIVE TimesMultiplierFrom(_, _, _)
TimesMultiplierFrom(x, n, carry) ==
    IF n > 63 THEN {}
    ELSE LET total == Cardinality({b \in x : (n - b) \in MultiplierBits}) + carry
         IN  (IF total % 2 = 1 THEN {n} ELSE {})
                 \cup TimesMultiplierFrom(x, n + 1, total \div 2)

(* C29: each generate() call replaces the generator's state x by the       *)
(* result of x ^= x << 13; x ^= x >> 7; x ^= x << 17 on 64-bit words (bits *)
(* shifted past the top are discarded) and returns the new state times the *)
(* odd constant 0x2545F4914F6CDD1D modulo 2^64; random_indicator is that   *)
(* value mod 2 and random_bool is true iff the indicator is 1.  (On every  *)
(* state the generator goes through from the seed 42 while the stores of   *)
(* the two tests are solved.)                                              *)
C29_Generate ==
    (stream = "seeded" /\ (IsTest(SAT) \/ IsTest(UNSAT))) =>
        \A g \in {generate(rng)} :
            \A y \in {XorShiftedLeft(XorShiftedRight(XorShiftedLeft(rng, 13), 7), 17)} :
                \A product \in {TimesMultiplierFrom(y, 0, 0)} :
                    /\ g.rng = y
                    /\ g.out = [j \in 1..8 |-> Limbs(product)[j - 1]]
                    /\ 0 \in MultiplierBits
                    /\ random_indicator(rng).rng = y
                    /\ random_indicator(rng).out = (IF 0 \in product THEN 1 ELSE 0)
                    /\ random_bool(rng).rng = y
                    /\ random_bool(rng).out = (random_indicator(rng).out = 1)

\* the generator has been through several restarts and its state has bits above
\* bit 46, so that the shift by 17 discards some
C29_Witness ==
    /\ stream = "seeded" /\ IsTest(UNSAT) /\ pc = "walk" /\ restart >= 2
    /\ \E b \in rng : b > 46
    /\ \E b \in rng : b < 7
    /\ generate(rng).rng # rng

\* the generator's state after k draws from the state x
RECURSIVE AfterDraws(_, _)
AfterDraws(x, k) == IF k = 0 THEN x ELSE AfterDraws(xorshift(x), k - 1)

(* C30: the draws are consumed in a fixed pattern.  Each restart consumes  *)
(* exactly n_var + 1 draws to randomize the assignment, one per entry, in  *)
(* the order of the entries, index 0 included; each random-walk step       *)
(* consumes exactly two draws, the first one choosing the index in the     *)
(* unsatisfied list and the second one which of the clause's two variables *)
(* is flipped; partition, the scans of random_repartition and the two      *)
(* loops of is_satisfiable and try_solve consume none.  (On the stream of  *)
(* the built-in seed, within a call; the generator's states from a seed    *)
(* are all different, so its state tells how many draws were made.)        *)
C30_DrawPattern ==
    [][(stream = "seeded" /\ call' = call) =>
          /\ (pc = "try_solve" /\ pc' = "partition") =>
                /\ rng' = AfterDraws(rng, n_var + 1)
                /\ \A v \in 0..n_var :
                      assignment'[v] = random_bool(AfterDraws(rng, v)).out
          /\ WalkStep =>
                /\ rng' = AfterDraws(rng, 2)
                /\ LET e   == trace'[Len(trace')]
                       idx == Mod(generate(rng).out, Len(unsatisfied))
                       ind == random_indicator(AfterDraws(rng, 1)).out
                   IN  /\ e.clause = unsatisfied[idx + 1]
                       /\ e.var = clauses[e.clause].vars[ind + 1]
          /\ ~((pc = "try_solve" /\ pc' = "partition") \/ WalkStep) => rng' = rng
          /\ \A k \in 1..(n_var + 3) : AfterDraws(rng, k) # rng]_vars

\* the second restart of a call on two variables has randomized its three entries
\* and made its first step: 2 * 3 + 2 * 5 draws since the seed
C30_Witness ==
    /\ stream = "seeded" /\ n_var = 2 /\ restart = 1 /\ pc = "walk" /\ i = 1
    /\ flips = 5 /\ LastIsFlip
    /\ AfterDraws(RNG_new(Seed), 16) = rng

====
